---- MODULE Spec2Model ----
(***************************************************************************)
(* Model of RpcTransportDesign/PythonSimulations/Simulator.py: the queue   *)
(* set of class Scheduler, the simple (SRPT, one priority) and the ideal   *)
(* (oracle) scheduler, the driver run() that feeds one arrival trace to    *)
(* both, and the penalty aggregation of __main__.                          *)
(*                                                                         *)
(* Python lists are sequences, [id, size] and the packet lists are records *)
(* with named fields, dicts are functions whose DOMAIN is the key set.     *)
(* Probabilities (cumulative probabilities, rho, the values returned by    *)
(* random.random()) are counted in units of 1/Scale.                       *)
(***************************************************************************)
EXTENDS Integers, Sequences, FiniteSets, TLC

\* ---- bounds of the model ------------------------------------------------
\* number of values random.random() is drawn from: k/Scale, k in 0..Scale-1
Scale == 4
\* largest value of --slots (steps) explored
MaxSteps == 2
\* largest value np.random.poisson(avgDelay) is drawn from
MaxPoisson == 1

\* ---- program constants --------------------------------------------------
\* fixedDelay = 1
FixedDelay == 1

\* the value a Python function returns when it falls off its end; Python 2
\* orders None before every number, as this value is before every size
None == 0 - 1

\* ---- configurations -----------------------------------------------------
\* rows are <<cumulative probability, size>>
TableHalf == << <<Scale \div 2, 1>>, <<Scale, 2>> >>
TableEmpty == << >>
TableShort == << <<Scale \div 2, 1>> >>
TableNonIncreasing == << <<Scale, 2>>, <<Scale \div 2, 1>> >>

ValidTables == {TableHalf}
AllTables == {TableHalf, TableEmpty, TableShort, TableNonIncreasing}

ValidRhos == {Scale \div 2}
AllRhos == {Scale \div 2, 0}

RECURSIVE StrictlyIncreasing(_, _)
StrictlyIncreasing(distMatrix, prevProb) ==
    IF distMatrix = << >> THEN TRUE
    ELSE /\ Head(distMatrix)[1] > prevProb
         /\ StrictlyIncreasing(Tail(distMatrix), Head(distMatrix)[1])

\* what the documentation of run() and generateMsgSize() asks of the input
ValidConfig(rhoV, distMatrix) ==
    /\ rhoV > 0
    /\ distMatrix # << >>
    /\ StrictlyIncreasing(distMatrix, 0)
    /\ distMatrix[Len(distMatrix)][1] = Scale
    /\ \A i \in 1..Len(distMatrix) : distMatrix[i][2] >= 1

\* ---- helpers ------------------------------------------------------------
MinOf(S) == CHOOSE x \in S : \A y \in S : x <= y
MaxOf(S) == CHOOSE x \in S : \A y \in S : x >= y

\* The element of a one-element set.  Operators below that use an argument
\* several times bind it first, as in Only({e(x) : x \in {arg}}): the argument
\* is then evaluated once, whatever expression the caller passed.
Only(S) == CHOOSE v \in S : TRUE

RECURSIVE SumSeq(_)
SumSeq(s) == IF s = << >> THEN 0 ELSE Head(s) + SumSeq(Tail(s))

\* list.sort(cmp=lambda x, y: cmp(x[k], y[k])): Python's sort is stable, so an
\* element goes behind every element whose key is not larger
InsertBy(sorted, e, k) ==
    Only({ SubSeq(x, 1, Cardinality({i \in 1..Len(x) : x[i][k] <= y[k]}))
           \o <<y>>
           \o SubSeq(x, Cardinality({i \in 1..Len(x) : x[i][k] <= y[k]}) + 1,
                     Len(x))
           : x \in {sorted}, y \in {e} })

RECURSIVE SortBy(_, _)
SortBy(s, k) ==
    Only({ IF x = << >> THEN << >>
           ELSE InsertBy(SortBy(SubSeq(x, 1, Len(x) - 1), k), x[Len(x)], k)
           : x \in {s} })

\* the fields Python compares when it compares two delayedPkt lists
\* (inj and d0 are history fields of the model, see addPktToDelayQueue)
SameValue(a, b) ==
    /\ a.id = b.id /\ a.size = b.size /\ a.prio = b.prio /\ a.delay = b.delay

\* s without its element at position n
DropAt(s, n) == SubSeq(s, 1, n - 1) \o SubSeq(s, n + 1, Len(s))

\* list.remove(x): drops the first element equal to x
RemoveFirst(s, x) ==
    Only({ IF \E i \in 1..Len(q) : SameValue(q[i], y)
           THEN DropAt(q, MinOf({i \in 1..Len(q) : SameValue(q[i], y)}))
           ELSE q
           : q \in {s}, y \in {x} })

\* txQueue.remove(msg) of idealScheduler, on [id, size] lists
RemoveFirstMsg(s, m) ==
    Only({ IF \E i \in 1..Len(q) : q[i] = y
           THEN DropAt(q, MinOf({i \in 1..Len(q) : q[i] = y}))
           ELSE q
           : q \in {s}, y \in {m} })

\* ---- generateMsgSize ----------------------------------------------------
\* mutant: the comparison is row[0] >= randomNumber
generateMsgSize_inclusive(distMatrix, randomNumber) ==
    LET rows == {i \in 1..Len(distMatrix) : distMatrix[i][1] >= randomNumber}
    IN IF rows = {} THEN None ELSE distMatrix[MinOf(rows)][2]

\* the size of the first row whose cumulative probability exceeds
\* randomNumber (the value of random.random()); None when the loop ends
\* without a return
generateMsgSize(distMatrix, randomNumber) ==
    LET rows == {i \in 1..Len(distMatrix) : distMatrix[i][1] > randomNumber}
    IN IF rows = {} THEN None ELSE distMatrix[MinOf(rows)][2]

\* ---- run(): mean size and the arrival coin -----------------------------
RECURSIVE sizeAvg(_, _)
sizeAvg(distMatrix, prevProb) ==
    IF distMatrix = << >> THEN 0
    ELSE Head(distMatrix)[2] * (Head(distMatrix)[1] - prevProb)
         + sizeAvg(Tail(distMatrix), Head(distMatrix)[1])

\* random.random() < rho / sizeAvg, for sizeAvg # 0; u, rho and sizeAvg are in
\* units of 1/Scale
ArrivalCoin(u, rhoV, avg) ==
    IF avg > 0 THEN u * avg < rhoV * Scale ELSE u * avg > rhoV * Scale

\* ---- class Scheduler ---------------------------------------------------
\* mutant: the delay is the Poisson sample alone, fixedDelay is not added
addPktToDelayQueue_noFixedDelay(delayQueue, pkt, poisson, fd, slotV) ==
    SortBy(Append(delayQueue,
                  [id |-> pkt.id, size |-> pkt.size, prio |-> pkt.prio,
                   delay |-> poisson, inj |-> slotV, d0 |-> poisson]),
           "delay")

\* mutant: the packet is appended and delayQueue is not sorted again
addPktToDelayQueue_noSort(delayQueue, pkt, poisson, fd, slotV) ==
    Append(delayQueue,
           [id |-> pkt.id, size |-> pkt.size, prio |-> pkt.prio,
            delay |-> poisson + fd, inj |-> slotV, d0 |-> poisson + fd])

\* addPktToDelayQueue: delay = np.random.poisson(avgDelay) + fixedDelay, append
\* [msgId, msgSize, pktPrio, delay], sort by delay.  poisson is the sampled
\* value.  inj (the slot of the call) and d0 (the sampled delay) are history
\* fields: no operator of the program reads them.
addPktToDelayQueue(delayQueue, pkt, poisson, fd, slotV) ==
    SortBy(Append(delayQueue,
                  [id |-> pkt.id, size |-> pkt.size, prio |-> pkt.prio,
                   delay |-> poisson + fd, inj |-> slotV,
                   d0 |-> poisson + fd]),
           "delay")

\* pkt = delayedPkt[0:-1]
StripDelay(delayedPkt) ==
    [id |-> delayedPkt.id, size |-> delayedPkt.size, prio |-> delayedPkt.prio]

\* mutant: the first loop ends at the first packet it releases (a break)
DepleteScan_stopsAtFirst(copy, delayQueue, rxQueue, released) ==
    Only({ IF \E i \in 1..Len(c) : c[i].delay = 0
           THEN [dq |-> RemoveFirst(d, c[MinOf({i \in 1..Len(c) :
                                                 c[i].delay = 0})]),
                 rx |-> Append(r, StripDelay(c[MinOf({i \in 1..Len(c) :
                                                      c[i].delay = 0})])),
                 released |-> Append(l, c[MinOf({i \in 1..Len(c) :
                                                 c[i].delay = 0})])]
           ELSE [dq |-> d, rx |-> r, released |-> l]
           : c \in {copy}, d \in {delayQueue}, r \in {rxQueue},
             l \in {released} })

\* the first loop of depleteDelayQueue, over the copy self.delayQueue[:]
RECURSIVE DepleteScan(_, _, _, _)
DepleteScan(copy, delayQueue, rxQueue, released) ==
    Only({ IF c = << >>
           THEN [dq |-> d, rx |-> r, released |-> l]
           ELSE IF Head(c).delay = 0
                THEN DepleteScan(Tail(c), RemoveFirst(d, Head(c)),
                                 Append(r, StripDelay(Head(c))),
                                 Append(l, Head(c)))
                ELSE DepleteScan(Tail(c), d, r, l)
           : c \in {copy}, d \in {delayQueue}, r \in {rxQueue},
             l \in {released} })

\* mutant: the second loop runs over self.delayQueue[1:], the head keeps its
\* delay
DecrementAll_skipsHead(delayQueue) ==
    Only({ [i \in 1..Len(d) |->
              IF i = 1 THEN d[i] ELSE [d[i] EXCEPT !.delay = @ - 1]]
           : d \in {delayQueue} })

\* the second loop of depleteDelayQueue: delayedPkt[-1] -= 1
DecrementAll(delayQueue) ==
    Only({ [i \in 1..Len(d) |-> [d[i] EXCEPT !.delay = @ - 1]]
           : d \in {delayQueue} })

\* mutant: the first loop runs over self.delayQueue itself, not over a copy,
\* so the element behind a removed one is skipped
RECURSIVE DepleteScanLive(_, _, _, _)
DepleteScanLive(i, delayQueue, rxQueue, released) ==
    Only({ IF i > Len(d)
           THEN [dq |-> d, rx |-> r, released |-> l]
           ELSE IF d[i].delay = 0
                THEN DepleteScanLive(i + 1, RemoveFirst(d, d[i]),
                                     Append(r, StripDelay(d[i])),
                                     Append(l, d[i]))
                ELSE DepleteScanLive(i + 1, d, r, l)
           : d \in {delayQueue}, r \in {rxQueue}, l \in {released} })

depleteDelayQueue_iteratesLiveList(delayQueue, rxQueue) ==
    Only({ [dq |-> DecrementAll(scan.dq), rx |-> SortBy(scan.rx, "prio"),
            released |-> scan.released]
           : scan \in {DepleteScanLive(1, delayQueue, rxQueue, << >>)} })

\* mutant: the delays are lowered before the scan for delay 0, not after
depleteDelayQueue_decrementsFirst(delayQueue, rxQueue) ==
    Only({ [dq |-> scan.dq, rx |-> SortBy(scan.rx, "prio"),
            released |-> scan.released]
           : scan \in {Only({DepleteScan(d, d, rxQueue, << >>)
                             : d \in {DecrementAll(delayQueue)}})} })

\* mutant: rxQueue is not sorted by priority after the scan
depleteDelayQueue_noRxSort(delayQueue, rxQueue) ==
    Only({ [dq |-> DecrementAll(scan.dq), rx |-> scan.rx,
            released |-> scan.released]
           : scan \in {Only({DepleteScan(d, d, rxQueue, << >>)
                             : d \in {delayQueue}})} })

\* depleteDelayQueue: release the packets whose delay is 0, sort rxQueue by
\* priority, then lower the delay of every packet left by 1
depleteDelayQueue(delayQueue, rxQueue) ==
    Only({ [dq |-> DecrementAll(scan.dq), rx |-> SortBy(scan.rx, "prio"),
            released |-> scan.released]
           : scan \in {Only({DepleteScan(d, d, rxQueue, << >>)
                             : d \in {delayQueue}})} })

\* mutant: the branch for a new key makes the list and forgets the append
RecordDeparture_newKeyNoAppend(out, pkt, slotV) ==
    IF pkt.id \in DOMAIN out
    THEN [out EXCEPT ![pkt.id] =
            Append(@, [slot |-> slotV, prio |-> pkt.prio, size |-> pkt.size])]
    ELSE out @@ (pkt.id :> << >>)

\* pktOutTimes[msgId].append([slot, pktPrio, msgSize]), the list made first
\* when msgId is not a key yet
RecordDeparture(out, pkt, slotV) ==
    IF pkt.id \in DOMAIN out
    THEN [out EXCEPT ![pkt.id] =
            Append(@, [slot |-> slotV, prio |-> pkt.prio, size |-> pkt.size])]
    ELSE out @@ (pkt.id :>
            << [slot |-> slotV, prio |-> pkt.prio, size |-> pkt.size] >>)

\* the tail both schedulers share: depleteDelayQueue(), then pop the head of
\* rxQueue and record it
DepleteAndRetire(tx, dq, rx, out, slotV) ==
    Only({ IF Len(dep.rx) > 0
           THEN [tx |-> tx, dq |-> dep.dq, rx |-> Tail(dep.rx),
                 out |-> RecordDeparture(o, Head(dep.rx), slotV),
                 released |-> dep.released, err |-> "none"]
           ELSE [tx |-> tx, dq |-> dep.dq, rx |-> dep.rx, out |-> o,
                 released |-> dep.released, err |-> "none"]
           : dep \in {depleteDelayQueue(dq, rx)}, o \in {out} })

\* the result of a scheduler call that raised: the queues as the exception
\* left them
Raised(tx, dq, rx, out, e) ==
    [tx |-> tx, dq |-> dq, rx |-> rx, out |-> out, released |-> << >>,
     err |-> e]

\* mutant: the packet carries the remaining size as its priority, as the
\* packets of idealScheduler do
SendHead_prioIsSize(txQ, dlQ, poisson, fd, slotV) ==
    [tx |-> IF txQ[1].size - 1 = 0 THEN Tail(txQ)
            ELSE [txQ EXCEPT ![1].size = @ - 1],
     dq |-> addPktToDelayQueue(dlQ, [id |-> txQ[1].id, size |-> txQ[1].size,
                                     prio |-> txQ[1].size], poisson, fd,
                               slotV)]

\* mutant: highPrioMsg is a copy of the head, so the decrement does not reach
\* the message in txQueue
SendHead_decrementsCopy(txQ, dlQ, poisson, fd, slotV) ==
    [tx |-> IF txQ[1].size - 1 = 0 THEN Tail(txQ) ELSE txQ,
     dq |-> addPktToDelayQueue(dlQ, [id |-> txQ[1].id, size |-> txQ[1].size,
                                     prio |-> 0], poisson, fd, slotV)]

\* lines 186-191 of simpleScheduler: a packet of the head message, priority
\* 0, goes to delayQueue; the message loses 1 and is popped at 0
SendHead(txQ, dlQ, poisson, fd, slotV) ==
    [tx |-> IF txQ[1].size - 1 = 0 THEN Tail(txQ)
            ELSE [txQ EXCEPT ![1].size = @ - 1],
     dq |-> addPktToDelayQueue(dlQ, [id |-> txQ[1].id, size |-> txQ[1].size,
                                     prio |-> 0], poisson, fd, slotV)]

\* mutant: the head message is popped when one packet of it is still unsent
simpleScheduler_popsEarly(txQ, dlQ, rxQ, store, slotV, poisson, fd) ==
    IF Len(txQ) > 0
    THEN DepleteAndRetire(
            IF txQ[1].size - 1 <= 1 THEN Tail(txQ)
            ELSE [txQ EXCEPT ![1].size = @ - 1],
            addPktToDelayQueue(dlQ, [id |-> txQ[1].id, size |-> txQ[1].size,
                                     prio |-> 0], poisson, fd, slotV),
            rxQ, store, slotV)
    ELSE DepleteAndRetire(txQ, dlQ, rxQ, store, slotV)

\* mutant: "while" for "if": packets are sent until txQueue is empty
RECURSIVE SendWhile(_, _, _, _, _)
SendWhile(txQ, dlQ, poisson, fd, slotV) ==
    Only({ IF Len(t) = 0 THEN [tx |-> t, dq |-> d]
           ELSE SendWhile(SendHead(t, d, poisson, fd, slotV).tx,
                          SendHead(t, d, poisson, fd, slotV).dq,
                          poisson, fd, slotV)
           : t \in {txQ}, d \in {dlQ} })

simpleScheduler_sendsWhile(txQ, dlQ, rxQ, store, slotV, poisson, fd) ==
    Only({ DepleteAndRetire(sent.tx, sent.dq, rxQ, store, slotV)
           : sent \in {SendWhile(txQ, dlQ, poisson, fd, slotV)} })

\* simpleScheduler(slot, pktOutTimes); poisson is the delay sample drawn when a
\* packet is sent.  highPrioMsg[1] -= 1 raises TypeError when the size is
\* None.
simpleScheduler(txQ, dlQ, rxQ, store, slotV, poisson, fd) ==
    IF Len(txQ) > 0
    THEN IF txQ[1].size = None
         THEN Raised(txQ, dlQ, rxQ, store, "TypeError")
         ELSE Only({ DepleteAndRetire(sent.tx, sent.dq, rxQ, store, slotV)
                     : sent \in {SendHead(txQ, dlQ, poisson, fd, slotV)} })
    ELSE DepleteAndRetire(txQ, dlQ, rxQ, store, slotV)

\* msg[1] -= 1 on the message object with this id
DecrementMsg(txQ, id) ==
    Only({ [j \in 1..Len(q) |->
              IF q[j].id = id THEN [q[j] EXCEPT !.size = @ - 1] ELSE q[j]]
           : q \in {txQ} })

\* the packet idealScheduler makes of msg: priority = remaining size
IdealPkt(msg) == [id |-> msg.id, size |-> msg.size, prio |-> msg.size]

\* the loop of idealScheduler over the copy self.txQueue[:]; poissons[i] is
\* the delay sample of the i-th message of the copy
RECURSIVE IdealLoop(_, _, _, _, _, _, _)
IdealLoop(copy, i, tx, dq, poissons, fd, slotV) ==
    Only({ IF i > Len(copy) THEN [tx |-> t, dq |-> d, err |-> "none"]
           ELSE IF copy[i].size = 1
                THEN IdealLoop(copy, i + 1, RemoveFirstMsg(t, copy[i]),
                               addPktToDelayQueue(d, IdealPkt(copy[i]),
                                                  poissons[i], fd, slotV),
                               poissons, fd, slotV)
                ELSE IF copy[i].size = None
                THEN [tx |-> t,
                      dq |-> addPktToDelayQueue(d, IdealPkt(copy[i]),
                                                poissons[i], fd, slotV),
                      err |-> "TypeError"]
                ELSE IdealLoop(copy, i + 1, DecrementMsg(t, copy[i].id),
                               addPktToDelayQueue(d, IdealPkt(copy[i]),
                                                  poissons[i], fd, slotV),
                               poissons, fd, slotV)
           : t \in {tx}, d \in {dq} })

\* mutant: the loop runs over self.txQueue itself, not over a copy, so the
\* message behind a removed one gets no packet in this slot
RECURSIVE IdealLoopLive(_, _, _, _, _, _)
IdealLoopLive(i, tx, dq, poissons, fd, slotV) ==
    Only({ IF i > Len(t) THEN [tx |-> t, dq |-> d, err |-> "none"]
           ELSE IF t[i].size = 1
                THEN IdealLoopLive(i + 1, RemoveFirstMsg(t, t[i]),
                                   addPktToDelayQueue(d, IdealPkt(t[i]),
                                                      poissons[i], fd, slotV),
                                   poissons, fd, slotV)
                ELSE IdealLoopLive(i + 1, DecrementMsg(t, t[i].id),
                                   addPktToDelayQueue(d, IdealPkt(t[i]),
                                                      poissons[i], fd, slotV),
                                   poissons, fd, slotV)
           : t \in {tx}, d \in {dq} })

idealScheduler_iteratesLiveList(txQ, dlQ, rxQ, store, slotV, poissons, fd) ==
    Only({ DepleteAndRetire(sent.tx, sent.dq, rxQ, store, slotV)
           : sent \in {IdealLoopLive(1, txQ, dlQ, poissons, fd, slotV)} })

\* idealScheduler(slot, pktOutTimes)
idealScheduler(txQ, dlQ, rxQ, store, slotV, poissons, fd) ==
    Only({ IF sent.err # "none"
           THEN Raised(sent.tx, sent.dq, rxQ, store, sent.err)
           ELSE DepleteAndRetire(sent.tx, sent.dq, rxQ, store, slotV)
           : sent \in {IdealLoop(txQ, 1, txQ, dlQ, poissons, fd, slotV)} })

\* ---- state --------------------------------------------------------------
VARIABLES
    pc,           \* where run() / __main__ stands: "start", "arrive", "sched",
                  \* "drain", "analyze", "done", "error"
    sched,        \* which half of run() executes: "simple" or "ideal"
    steps, rho, distMatrix, fixedDelay,   \* the arguments and the global
    slot,         \* the variable slot of run(); None while it is unbound
    msgId,        \* the variable msgId of run()
    txQueue, delayQueue, rxQueue,         \* the queues of the Scheduler
    msgDict,      \* msgId -> [size, slot]
    pktOutTimes,  \* [simple, ideal], each msgId -> list of [slot, prio, size]
    err,          \* the exception that ended the program, or "none"
    report,       \* what the penalty aggregation of __main__ computed
    last,         \* history: the latest call (of a scheduler: the queues
                  \* before it and the packets its depletion released)
    arrivals,     \* history: per run, the messages appended to txQueue, in
                  \* order, each with the slot of the append
    heap          \* the list objects that are the default arguments of
                  \* Scheduler.__init__, the list objects callers made, and
                  \* the Scheduler instances that refer to them (run() passes
                  \* its own lists and uses none of these)

vars == <<pc, sched, steps, rho, distMatrix, fixedDelay, slot, msgId, txQueue,
          delayQueue, rxQueue, msgDict, pktOutTimes, err, report, last, arrivals,
          heap>>

\* what run() and the aggregation leave alone
config == <<steps, rho, distMatrix, fixedDelay, heap>>
queues == <<txQueue, delayQueue, rxQueue>>

EmptyDict == [k \in {} |-> << >>]
NoCall == [kind |-> "none", slot |-> None, tx |-> << >>, dq |-> 0, rx |-> 0,
           departed |-> 0, released |-> << >>]
NoReport == [numMsg |-> None, completion |-> EmptyDict]

\* def __init__(self, txQueue = [], rxQueue = [], delayQueue = []): the three
\* default lists are made once, when the def statement runs; they are the
\* objects 1, 2 and 3 of the heap
DefaultLists == [txQueue |-> 1, rxQueue |-> 2, delayQueue |-> 3]
NoSchedulers ==
    [lists |-> <<<< >>, << >>, << >>>>, schedulers |-> << >>, made |-> 0,
     calls |-> 0]

\* a drained run ends within this many slots; the drain loop of the model stops
\* there
MaxSlot == 6 * MaxSteps + MaxPoisson + 2

InitWith(stepsV, rhoV, table, fd) ==
    /\ pc = "start" /\ sched = "simple"
    /\ steps = stepsV /\ rho = rhoV /\ distMatrix = table /\ fixedDelay = fd
    /\ slot = None /\ msgId = 0
    /\ txQueue = << >> /\ delayQueue = << >> /\ rxQueue = << >>
    /\ msgDict = EmptyDict
    /\ pktOutTimes = [simple |-> EmptyDict, ideal |-> EmptyDict]
    /\ err = "none" /\ report = NoReport /\ last = NoCall
    /\ arrivals = [simple |-> << >>, ideal |-> << >>]
    /\ heap = NoSchedulers

\* the program as written, on the inputs its documentation allows
Init ==
    \E stepsV \in 0..MaxSteps, rhoV \in ValidRhos, table \in ValidTables :
        InitWith(stepsV, rhoV, table, FixedDelay)

\* number of departure records in a store
RECURSIVE CountRecords(_, _)
CountRecords(out, keys) ==
    IF keys = {} THEN 0
    ELSE LET k == CHOOSE k \in keys : TRUE
         IN Len(out[k]) + CountRecords(out, keys \ {k})

Departed(out) == CountRecords(out, DOMAIN out)

AllEmpty == Len(txQueue) = 0 /\ Len(rxQueue) = 0 /\ Len(delayQueue) = 0

\* the loop variable after an iteration of "for slot in range(steps)"
AfterSlot ==
    IF slot + 1 < steps
    THEN /\ pc' = "arrive" /\ slot' = slot + 1
    ELSE /\ pc' = "drain" /\ slot' = slot

\* the state after a scheduler call that returned res
Called(kind, at, res) ==
    /\ txQueue' = res.tx /\ delayQueue' = res.dq /\ rxQueue' = res.rx
    /\ pktOutTimes' = [pktOutTimes EXCEPT ![sched] = res.out]
    /\ err' = res.err
    /\ last' = [kind |-> kind, slot |-> at, tx |-> txQueue,
                dq |-> Len(delayQueue), rx |-> Len(rxQueue),
                departed |-> Departed(pktOutTimes[sched]),
                released |-> res.released]

\* lines 318-332: the mean size, probPerSlot, the first Scheduler
Start ==
    /\ pc = "start"
    /\ IF sizeAvg(distMatrix, 0) = 0
       THEN pc' = "error" /\ err' = "ZeroDivisionError" /\ slot' = slot
       ELSE /\ err' = err
            /\ IF steps > 0 THEN pc' = "arrive" /\ slot' = 0
                            ELSE pc' = "drain" /\ slot' = slot
    /\ UNCHANGED <<sched, config, msgId, queues, msgDict, pktOutTimes, report,
                   last, arrivals>>

\* mutant: the new message is appended and txQueue is not sorted again
GenerateArrival_noSort ==
    /\ pc = "arrive" /\ sched = "simple"
    /\ \E u \in 0..(Scale - 1) :
          IF ArrivalCoin(u, rho, sizeAvg(distMatrix, 0))
          THEN \E randomNumber \in 0..(Scale - 1) :
                LET newMsg == [id |-> msgId,
                               size |-> generateMsgSize(distMatrix,
                                                        randomNumber)]
                IN /\ txQueue' = Append(txQueue, newMsg)
                   /\ msgDict' = msgDict @@
                        (msgId :> [size |-> newMsg.size, slot |-> slot])
                   /\ msgId' = msgId + 1
                   /\ arrivals' = [arrivals EXCEPT !.simple = Append(@,
                        [id |-> newMsg.id, size |-> newMsg.size,
                         slot |-> slot])]
          ELSE UNCHANGED <<txQueue, msgDict, msgId, arrivals>>
    /\ pc' = "sched"
    /\ UNCHANGED <<sched, config, slot, delayQueue, rxQueue, pktOutTimes, err,
                   report, last>>

\* lines 338-343: the arrival of slot `slot` in the first loop
GenerateArrival ==
    /\ pc = "arrive" /\ sched = "simple"
    /\ \E u \in 0..(Scale - 1) :
          IF ArrivalCoin(u, rho, sizeAvg(distMatrix, 0))
          THEN \E randomNumber \in 0..(Scale - 1) :
                LET newMsg == [id |-> msgId,
                               size |-> generateMsgSize(distMatrix,
                                                        randomNumber)]
                IN /\ txQueue' = SortBy(Append(txQueue, newMsg), "size")
                   /\ msgDict' = msgDict @@
                        (msgId :> [size |-> newMsg.size, slot |-> slot])
                   /\ msgId' = msgId + 1
                   /\ arrivals' = [arrivals EXCEPT !.simple = Append(@,
                        [id |-> newMsg.id, size |-> newMsg.size,
                         slot |-> slot])]
          ELSE UNCHANGED <<txQueue, msgDict, msgId, arrivals>>
    /\ pc' = "sched"
    /\ UNCHANGED <<sched, config, slot, delayQueue, rxQueue, pktOutTimes, err,
                   report, last>>

\* line 345: scheduler.simpleScheduler(slot, pktOutTimes['simple'])
SimpleSlot ==
    /\ pc = "sched" /\ sched = "simple"
    /\ \E poisson \in 0..MaxPoisson :
          \E r \in {simpleScheduler(txQueue, delayQueue, rxQueue,
                                     pktOutTimes.simple, slot, poisson,
                                     fixedDelay)} :
             /\ Called("simple", slot, r)
             /\ IF r.err # "none" THEN pc' = "error" /\ slot' = slot
                ELSE AfterSlot
    /\ UNCHANGED <<sched, config, msgId, msgDict, report, arrivals>>

\* mutant: the drain loop calls the scheduler first and adds 1 to slot after
SimpleDrain_incrementsAfter ==
    /\ pc = "drain" /\ sched = "simple" /\ ~AllEmpty
    /\ slot < MaxSlot
    /\ \E poisson \in 0..MaxPoisson :
          \E r \in {simpleScheduler(txQueue, delayQueue, rxQueue,
                                     pktOutTimes.simple, slot, poisson,
                                     fixedDelay)} :
             /\ Called("simple", slot, r)
             /\ slot' = slot + 1
             /\ pc' = IF r.err # "none" THEN "error" ELSE "drain"
    /\ UNCHANGED <<sched, config, msgId, msgDict, report, arrivals>>

\* lines 347-349: one iteration of the drain loop of the first run
SimpleDrain ==
    /\ pc = "drain" /\ sched = "simple" /\ ~AllEmpty
    /\ slot < MaxSlot
    /\ \E poisson \in 0..MaxPoisson :
          \E r \in {simpleScheduler(txQueue, delayQueue, rxQueue,
                                     pktOutTimes.simple, slot + 1, poisson,
                                     fixedDelay)} :
             /\ Called("simple", slot + 1, r)
             /\ slot' = slot + 1
             /\ pc' = IF r.err # "none" THEN "error" ELSE "drain"
    /\ UNCHANGED <<sched, config, msgId, msgDict, report, arrivals>>

\* lines 353-357: the drain loop is left, the second Scheduler is made
StartIdeal ==
    /\ pc = "drain" /\ sched = "simple" /\ AllEmpty
    /\ sched' = "ideal"
    /\ txQueue' = << >> /\ rxQueue' = << >> /\ delayQueue' = << >>
    /\ msgId' = 0
    /\ IF steps > 0 THEN pc' = "arrive" /\ slot' = 0
                    ELSE pc' = "drain" /\ slot' = slot
    /\ UNCHANGED <<config, msgDict, pktOutTimes, err, report, last, arrivals>>

\* mutant: the replay forgets msgId += 1
ReplayArrival_noIncrement ==
    /\ pc = "arrive" /\ sched = "ideal"
    /\ IF msgId \in DOMAIN msgDict /\ msgDict[msgId].slot = slot
       THEN /\ txQueue' = SortBy(Append(txQueue,
                    [id |-> msgId, size |-> msgDict[msgId].size]), "size")
            /\ arrivals' = [arrivals EXCEPT !.ideal = Append(@,
                    [id |-> msgId, size |-> msgDict[msgId].size,
                     slot |-> slot])]
       ELSE UNCHANGED <<txQueue, arrivals>>
    /\ pc' = "sched"
    /\ UNCHANGED <<sched, config, slot, msgId, delayQueue, rxQueue, msgDict,
                   pktOutTimes, err, report, last>>

\* lines 359-363: the arrival of slot `slot` in the replay
ReplayArrival ==
    /\ pc = "arrive" /\ sched = "ideal"
    /\ IF msgId \in DOMAIN msgDict /\ msgDict[msgId].slot = slot
       THEN LET newMsg == [id |-> msgId, size |-> msgDict[msgId].size]
            IN /\ txQueue' = SortBy(Append(txQueue, newMsg), "size")
               /\ msgId' = msgId + 1
               /\ arrivals' = [arrivals EXCEPT !.ideal = Append(@,
                    [id |-> newMsg.id, size |-> newMsg.size, slot |-> slot])]
       ELSE UNCHANGED <<txQueue, msgId, arrivals>>
    /\ pc' = "sched"
    /\ UNCHANGED <<sched, config, slot, delayQueue, rxQueue, msgDict,
                   pktOutTimes, err, report, last>>

\* line 364: scheduler.idealScheduler(slot, pktOutTimes['ideal'])
IdealSlot ==
    /\ pc = "sched" /\ sched = "ideal"
    /\ \E poissons \in [1..Len(txQueue) -> 0..MaxPoisson] :
          \E r \in {idealScheduler(txQueue, delayQueue, rxQueue,
                                    pktOutTimes.ideal, slot, poissons,
                                    fixedDelay)} :
             /\ Called("ideal", slot, r)
             /\ IF r.err # "none" THEN pc' = "error" /\ slot' = slot
                ELSE AfterSlot
    /\ UNCHANGED <<sched, config, msgId, msgDict, report, arrivals>>

\* lines 366-368: one iteration of the drain loop of the second run
IdealDrain ==
    /\ pc = "drain" /\ sched = "ideal" /\ ~AllEmpty
    /\ slot < MaxSlot
    /\ \E poissons \in [1..Len(txQueue) -> 0..MaxPoisson] :
          \E r \in {idealScheduler(txQueue, delayQueue, rxQueue,
                                    pktOutTimes.ideal, slot + 1, poissons,
                                    fixedDelay)} :
             /\ Called("ideal", slot + 1, r)
             /\ slot' = slot + 1
             /\ pc' = IF r.err # "none" THEN "error" ELSE "drain"
    /\ UNCHANGED <<sched, config, msgId, msgDict, report, arrivals>>

\* run() returns to __main__ (line 427)
Return ==
    /\ pc = "drain" /\ sched = "ideal" /\ AllEmpty
    /\ pc' = "analyze"
    /\ UNCHANGED <<sched, config, slot, msgId, queues, msgDict, pktOutTimes,
                   err, report, last, arrivals>>

\* lines 438-443: max of the departure slots of a message, minus its arrival
Completion(out, key) ==
    MaxOf({out[key][i].slot : i \in 1..Len(out[key])}) - msgDict[key].slot

\* lines 428-465 of __main__: the messages both stores hold are compared; the
\* penalty of a message divides by its ideal completion time (line 449) and
\* the mean divides by numMsg (line 464)
Analyze ==
    /\ pc = "analyze"
    /\ LET keys == DOMAIN pktOutTimes.simple \cap DOMAIN pktOutTimes.ideal
           completion == [key \in keys |->
                [simple |-> Completion(pktOutTimes.simple, key),
                 ideal |-> Completion(pktOutTimes.ideal, key)]]
       IN /\ report' = [numMsg |-> Cardinality(keys),
                        completion |-> completion]
          /\ IF \/ \E key \in keys : completion[key].ideal = 0
                \/ Cardinality(keys) = 0
             THEN pc' = "error" /\ err' = "ZeroDivisionError"
             ELSE pc' = "done" /\ err' = err
    /\ UNCHANGED <<sched, config, slot, msgId, queues, msgDict, pktOutTimes,
                   last, arrivals>>

Next ==
    \/ Start
    \/ GenerateArrival
    \/ SimpleSlot
    \/ SimpleDrain
    \/ StartIdeal
    \/ ReplayArrival
    \/ IdealSlot
    \/ IdealDrain
    \/ Return
    \/ Analyze

Spec == Init /\ [][Next]_vars

\* the program is one sequential thread: whenever it can take a step it does
FairSpec == Spec /\ WF_vars(Next)

\* the program on every input the claims on configuration speak of
InitCfg ==
    \E stepsV \in 0..MaxSteps, rhoV \in AllRhos, table \in AllTables :
        InitWith(stepsV, rhoV, table, FixedDelay)

SpecCfg == InitCfg /\ [][Next]_vars

\* the program with the global fixedDelay set to 0, so that sampled delays
\* start at 0
InitNoFixedDelay ==
    \E stepsV \in 0..MaxSteps, rhoV \in ValidRhos, table \in ValidTables :
        InitWith(stepsV, rhoV, table, 0)

SpecNoFixedDelay == InitNoFixedDelay /\ [][Next]_vars

\* the Simple half of run(), lines 318-349
NextSimple ==
    \/ Start
    \/ GenerateArrival
    \/ SimpleSlot
    \/ SimpleDrain

\* the Simple half on a table with sizes 1 and 3: a message of size 1 can
\* arrive while a larger one is partly sent and still has more than 1 to send
TablePreempt == << <<Scale \div 2, 1>>, <<Scale, 3>> >>

InitPreempt ==
    \E stepsV \in 0..MaxSteps, rhoV \in ValidRhos :
        InitWith(stepsV, rhoV, TablePreempt, FixedDelay)

SpecPreempt == InitPreempt /\ [][NextSimple]_vars

\* the Simple run with Poisson samples up to MaxPoisson + 1: two packets sent
\* one slot apart can then draw delays that differ by 2
SimpleSlotWide ==
    /\ pc = "sched" /\ sched = "simple"
    /\ \E poisson \in 0..(MaxPoisson + 1) :
          \E r \in {simpleScheduler(txQueue, delayQueue, rxQueue,
                                     pktOutTimes.simple, slot, poisson,
                                     fixedDelay)} :
             /\ Called("simple", slot, r)
             /\ IF r.err # "none" THEN pc' = "error" /\ slot' = slot
                ELSE AfterSlot
    /\ UNCHANGED <<sched, config, msgId, msgDict, report, arrivals>>

SimpleDrainWide ==
    /\ pc = "drain" /\ sched = "simple" /\ ~AllEmpty
    /\ slot < MaxSlot
    /\ \E poisson \in 0..(MaxPoisson + 1) :
          \E r \in {simpleScheduler(txQueue, delayQueue, rxQueue,
                                     pktOutTimes.simple, slot + 1, poisson,
                                     fixedDelay)} :
             /\ Called("simple", slot + 1, r)
             /\ slot' = slot + 1
             /\ pc' = IF r.err # "none" THEN "error" ELSE "drain"
    /\ UNCHANGED <<sched, config, msgId, msgDict, report, arrivals>>

NextSimpleWide ==
    \/ Start
    \/ GenerateArrival
    \/ SimpleSlotWide
    \/ SimpleDrainWide

SpecSimpleWide == Init /\ [][NextSimpleWide]_vars

\* ---- generateMsgSize called on its own ------------------------------------
\* largest size a row of a sampled table declares
MaxSize == 2

\* every table of at most two rows <<cumulative probability, size>>
SampleTables ==
    UNION {[1..n -> (0..Scale) \X (1..MaxSize)] : n \in 0..2}

\* generateMsgSize(distMatrix) with random.random() returning randomNumber;
\* last keeps the draw and the value returned
CallGenerateMsgSize ==
    /\ pc = "start"
    /\ \E randomNumber \in 0..(Scale - 1) :
          last' = [kind |-> "generateMsgSize", randomNumber |-> randomNumber,
                   result |-> generateMsgSize(distMatrix, randomNumber)]
    /\ UNCHANGED <<pc, sched, config, slot, msgId, queues, msgDict,
                   pktOutTimes, err, report, arrivals>>

InitGenerate ==
    \E table \in SampleTables : InitWith(0, Scale \div 2, table, FixedDelay)

SpecGenerate == InitGenerate /\ [][CallGenerateMsgSize]_vars

\* ---- class Scheduler used on its own ---------------------------------------
\* most Scheduler instances made
MaxInstances == 2

\* what the actions on Scheduler instances leave alone
runState == <<pc, sched, steps, rho, distMatrix, fixedDelay, slot, msgId,
              queues, msgDict, pktOutTimes, err, report, last, arrivals>>

\* __init__ (lines 100-102): the instance keeps the references it was given
NewScheduler(txQueue_, rxQueue_, delayQueue_) ==
    [txQueue |-> txQueue_, rxQueue |-> rxQueue_, delayQueue |-> delayQueue_,
     out |-> EmptyDict]

\* Scheduler(): no argument is given, the parameters are the default lists
ConstructDefault ==
    /\ Len(heap.schedulers) < MaxInstances
    /\ heap' = [heap EXCEPT !.schedulers =
                   Append(@, NewScheduler(DefaultLists.txQueue,
                                          DefaultLists.rxQueue,
                                          DefaultLists.delayQueue))]
    /\ UNCHANGED runState

\* Scheduler(txQueue, rxQueue, delayQueue) on three lists the caller has
\* just made with list(), as run() does (lines 328-331)
ConstructWithLists ==
    /\ Len(heap.schedulers) < MaxInstances
    /\ LET n == Len(heap.lists)
       IN heap' = [heap EXCEPT
                     !.lists = @ \o <<<< >>, << >>, << >>>>,
                     !.schedulers =
                        Append(@, NewScheduler(n + 1, n + 2, n + 3))]
    /\ UNCHANGED runState

\* scheduler.txQueue.append(newMsg[:]) and the sort, as in lines 340-341;
\* the message ids are 0, 1, ... over all instances
PutMessage ==
    /\ heap.made < MaxSteps
    /\ \E i \in 1..Len(heap.schedulers), size \in 1..MaxSize :
          LET ref == heap.schedulers[i].txQueue
          IN heap' = [heap EXCEPT
                        !.lists[ref] =
                           SortBy(Append(@, [id |-> heap.made,
                                             size |-> size]), "size"),
                        !.made = @ + 1]
    /\ UNCHANGED runState

\* scheduler.simpleScheduler(slot, pktOutTimes) on one instance: the method
\* works on the lists the instance refers to
CallSimpleScheduler ==
    /\ heap.calls < MaxSteps + 1
    /\ \E i \in 1..Len(heap.schedulers), poisson \in 0..MaxPoisson :
          LET self == heap.schedulers[i]
          IN \E r \in {simpleScheduler(heap.lists[self.txQueue],
                                        heap.lists[self.delayQueue],
                                        heap.lists[self.rxQueue], self.out,
                                        heap.calls, poisson, fixedDelay)} :
                heap' = [heap EXCEPT
                           !.lists =
                              [o \in 1..Len(heap.lists) |->
                                  IF o = self.txQueue THEN r.tx
                                  ELSE IF o = self.delayQueue THEN r.dq
                                  ELSE IF o = self.rxQueue THEN r.rx
                                  ELSE heap.lists[o]],
                           !.schedulers[i].out = r.out,
                           !.calls = @ + 1]
    /\ UNCHANGED runState

NextInstances ==
    \/ ConstructDefault
    \/ ConstructWithLists
    \/ PutMessage
    \/ CallSimpleScheduler

\* no Scheduler made yet; run() is not called
InitInstances == InitWith(0, Scale \div 2, TableHalf, FixedDelay)

SpecInstances == InitInstances /\ [][NextInstances]_vars

\* ---- type and sanity ----------------------------------------------------
\* the drain loops of the model never stop at MaxSlot with work left
DrainNotCut == (pc = "drain" /\ ~AllEmpty) => slot < MaxSlot

\* ---- where a message's packets are ---------------------------------------
\* the store of the run that executes
Store == pktOutTimes[sched]

\* m's remaining size in txQueue, 0 if m is absent
TxRemaining(m) ==
    SumSeq([i \in 1..Len(txQueue) |->
               IF txQueue[i].id = m THEN txQueue[i].size ELSE 0])

InDelay(m) == Cardinality({i \in 1..Len(delayQueue) : delayQueue[i].id = m})

InRx(m) == Cardinality({i \in 1..Len(rxQueue) : rxQueue[i].id = m})

RecordsOf(out, m) == IF m \in DOMAIN out THEN Len(out[m]) ELSE 0

\* the messages the run that executes has put into its txQueue so far
Arrived == {m \in DOMAIN msgDict : m < msgId}

\* the state right after a call of the scheduler `kind`: `last` describes the
\* call and nothing has touched the queues since
FreshCall(kind) ==
    /\ last.kind = kind /\ sched = kind /\ pc \in {"arrive", "drain"}

\* C1: queue conservation.  In every state of either run, for every message
\* the run has generated (put into its txQueue), its remaining size in
\* txQueue plus its packets in delayQueue plus its packets in rxQueue plus its
\* departure records in the run's store equals its size in the message table.
C1_QueueConservation ==
    \A m \in Arrived :
        TxRemaining(m) + InDelay(m) + InRx(m) + RecordsOf(Store, m)
            = msgDict[m].size

\* C1 witness: a message of size 2 with one packet in flight and one departed
C1_Witness ==
    \E m \in Arrived :
        /\ msgDict[m].size = 2 /\ InDelay(m) = 1 /\ RecordsOf(Store, m) = 1
        /\ C1_QueueConservation

\* C2: when a run has finished its drain phase the three queues are empty and
\* the run's store holds, for every message of the message table, exactly as
\* many departure records as the message's size.
DrainFinished(kind) ==
    IF kind = "simple"
    THEN (sched = "simple" /\ pc = "drain" /\ AllEmpty) \/ sched = "ideal"
    ELSE sched = "ideal" /\ ((pc = "drain" /\ AllEmpty)
                                \/ pc \in {"analyze", "done", "error"})

AllRetired(out) ==
    /\ DOMAIN out = DOMAIN msgDict
    /\ \A m \in DOMAIN msgDict : Len(out[m]) = msgDict[m].size

C2_AllRetiredAtEndOfDrain ==
    /\ DrainFinished("simple") => AllRetired(pktOutTimes.simple)
    /\ DrainFinished("ideal") => AllEmpty /\ AllRetired(pktOutTimes.ideal)

\* C2 witness: both runs are over and two messages, one of size 2, were retired
C2_Witness ==
    /\ pc = "analyze"
    /\ Cardinality(DOMAIN msgDict) = 2
    /\ \E m \in DOMAIN msgDict : msgDict[m].size = 2
    /\ AllRetired(pktOutTimes.simple) /\ AllRetired(pktOutTimes.ideal)

\* C3: the drain phase of each run terminates.  Under FairSpec, whenever a
\* run is in its drain loop it eventually leaves it, which it does only with
\* txQueue, delayQueue and rxQueue all empty (the guards of StartIdeal and
\* Return): the Simple run goes on to the Ideal run, the Ideal run returns.
C3_DrainTerminates ==
    /\ (pc = "drain" /\ sched = "simple") ~> (sched = "ideal")
    /\ (pc = "drain" /\ sched = "ideal") ~> (pc = "analyze" /\ AllEmpty)

\* C3 witness: both drain loops have iterated (slot went past steps - 1) with
\* two messages to retire, and the second one has ended
C3_Witness ==
    /\ pc = "analyze" /\ steps > 0 /\ slot > steps
    /\ Cardinality(DOMAIN msgDict) = 2
    /\ \E m \in DOMAIN msgDict :
          pktOutTimes.simple[m][Len(pktOutTimes.simple[m])].slot > steps

\* C4: the Ideal replay sees exactly the arrival trace of the Simple run.
\* The messages the Ideal run has appended to its txQueue are, in order, the
\* messages of the message table (same id, original size, recorded slot) whose
\* arrival slot is not after the current slot: each is appended in its own
\* arrival slot, before the scheduler call of that slot (it is in the txQueue
\* the call starts with, with its full size), and the trace is complete when
\* the replay loop is over.
TraceOfTable ==
    [i \in 1..Cardinality(DOMAIN msgDict) |->
        [id |-> i - 1, size |-> msgDict[i - 1].size,
         slot |-> msgDict[i - 1].slot]]

\* how many messages of the table the replay must have appended by now
DueInReplay ==
    Cardinality({m \in DOMAIN msgDict :
        \/ pc \notin {"arrive", "sched"}
        \/ msgDict[m].slot < slot
        \/ msgDict[m].slot = slot /\ pc = "sched"})

C4_ReplaySeesSameTrace ==
    /\ DOMAIN msgDict = 0..(Cardinality(DOMAIN msgDict) - 1)
    /\ arrivals.simple = TraceOfTable
    /\ sched = "simple" => arrivals.ideal = << >>
    /\ sched = "ideal" =>
          /\ arrivals.ideal = SubSeq(TraceOfTable, 1, DueInReplay)
          /\ FreshCall("ideal") =>
                \A m \in DOMAIN msgDict :
                    msgDict[m].slot = last.slot =>
                        \E i \in 1..Len(last.tx) :
                            last.tx[i] = [id |-> m, size |-> msgDict[m].size]

\* C4 witness: the replay is over and has appended two messages, the second
\* one of size 2 in slot 1
C4_Witness ==
    /\ sched = "ideal" /\ pc = "analyze"
    /\ Len(arrivals.ideal) = 2
    /\ arrivals.ideal[2] = [id |-> 1, size |-> 2, slot |-> 1]
    /\ arrivals.ideal = arrivals.simple

\* ---- what the latest scheduler call did ----------------------------------
Mass(tx) == SumSeq([i \in 1..Len(tx) |-> tx[i].size])

\* packets the call put into delayQueue: the growth of delayQueue, rxQueue
\* and the store together
Injected == (Len(delayQueue) + Len(rxQueue) + Departed(Store))
                - (last.dq + last.rx + last.departed)

\* packets the call took out of rxQueue and recorded
Retired == Departed(Store) - last.departed

\* C5: a call of simpleScheduler moves at most one packet from txQueue into
\* delayQueue, exactly one when txQueue is not empty and none otherwise, and
\* takes at most one packet out of rxQueue, which it records.
C5_SimpleOnePerSlot ==
    FreshCall("simple") =>
        /\ Injected = (IF Len(last.tx) > 0 THEN 1 ELSE 0)
        /\ Mass(last.tx) - Mass(txQueue) = Injected
        /\ Retired \in {0, 1}
        /\ Len(rxQueue) = last.rx + Len(last.released) - Retired

\* C5 witness: a call that found two messages in txQueue, sent one packet and
\* retired one
C5_Witness ==
    /\ FreshCall("simple") /\ Len(last.tx) = 2
    /\ Injected = 1 /\ Retired = 1

\* C6: a call of idealScheduler injects one packet for each message that was
\* in txQueue when it started; each of these messages loses exactly 1 and is
\* in txQueue afterwards exactly when something of it remains; at most one
\* packet is retired.
C6_IdealOnePerMessage ==
    FreshCall("ideal") =>
        /\ Injected = Len(last.tx)
        /\ \A i \in 1..Len(last.tx) :
              /\ TxRemaining(last.tx[i].id) = last.tx[i].size - 1
              /\ (\E j \in 1..Len(txQueue) : txQueue[j].id = last.tx[i].id)
                    <=> last.tx[i].size - 1 > 0
        /\ Len(txQueue) =
              Cardinality({i \in 1..Len(last.tx) : last.tx[i].size > 1})
        /\ Retired \in {0, 1}

\* C6 witness: a call that found two messages, sent a packet of each, removed
\* one of them and kept the other
C6_Witness ==
    /\ FreshCall("ideal") /\ Len(last.tx) = 2 /\ Injected = 2
    /\ Len(txQueue) = 1

Complete(out, m) == m \in DOMAIN out /\ Len(out[m]) = msgDict[m].size

C8_IdealCompletionLowerBound ==
    \A m \in DOMAIN msgDict :
        Complete(pktOutTimes.ideal, m) =>
            Completion(pktOutTimes.ideal, m)
                >= fixedDelay + (msgDict[m].size - 1)

\* C8 witness: a message of size 2 that met the bound exactly
C8_Witness ==
    \E m \in DOMAIN msgDict :
        /\ msgDict[m].size = 2 /\ Complete(pktOutTimes.ideal, m)
        /\ Completion(pktOutTimes.ideal, m) = fixedDelay + 1

\* C9: with steps = 0 no message is generated, both stores stay empty, and
\* the penalty aggregation reports zero compared messages without a fault.
C9_ZeroStepsNoFault ==
    steps = 0 =>
        /\ DOMAIN msgDict = {}
        /\ DOMAIN pktOutTimes.simple = {} /\ DOMAIN pktOutTimes.ideal = {}
        /\ pc \in {"done", "error"} =>
              (report.numMsg = 0 /\ err = "none" /\ pc = "done")

\* C10: an input that is not valid (empty or short table, cumulative
\* probabilities that do not increase, rho <= 0) is rejected before the
\* simulation starts: no scheduler call is made, no message and no departure
\* is recorded, and run() does not return normally.
C10_InvalidConfigRejected ==
    ~ValidConfig(rho, distMatrix) =>
        /\ last.kind = "none"
        /\ DOMAIN msgDict = {}
        /\ DOMAIN pktOutTimes.simple = {} /\ DOMAIN pktOutTimes.ideal = {}
        /\ pc \notin {"analyze", "done"}

\* ---- sums over the compared messages -----------------------------------
RECURSIVE SumDifference(_, _)
SumDifference(completion, keys) ==
    IF keys = {} THEN 0
    ELSE LET k == CHOOSE k \in keys : TRUE
         IN (completion[k].simple - completion[k].ideal)
            + SumDifference(completion, keys \ {k})

\* C12: Ideal is never worse than Simple.  When the aggregation is done, for
\* a load rho < 1, the mean over the compared messages of completionSimple -
\* completionIdeal is >= 0 (the sum is, the number of messages being > 0).
C12_IdealNeverWorse ==
    (pc = "done" /\ rho < Scale) =>
        SumDifference(report.completion, DOMAIN report.completion) >= 0

\* C13: generateMsgSize returns the size of the first row whose cumulative
\* probability exceeds the draw u; for a table with strictly increasing
\* probabilities that ends at 1.0 this is one of the table's sizes; when no
\* row's probability exceeds u it returns no value.
C13_GenerateMsgSize ==
    last.kind = "generateMsgSize" =>
        LET u == last.randomNumber
            exceeding == {i \in 1..Len(distMatrix) : distMatrix[i][1] > u}
        IN /\ exceeding = {} => last.result = None
           /\ exceeding # {} =>
                 \E i \in exceeding :
                    /\ \A j \in 1..(i - 1) : distMatrix[j][1] <= u
                    /\ last.result = distMatrix[i][2]
           /\ (/\ distMatrix # << >>
               /\ StrictlyIncreasing(distMatrix, 0)
               /\ distMatrix[Len(distMatrix)][1] = Scale) =>
                 \E i \in 1..Len(distMatrix) : last.result = distMatrix[i][2]

\* C13 witness: a table with increasing probabilities that ends at 1.0, a
\* draw equal to the first row's probability, and the second row's size
\* returned
C13_Witness ==
    /\ last.kind = "generateMsgSize"
    /\ Len(distMatrix) = 2 /\ StrictlyIncreasing(distMatrix, 0)
    /\ distMatrix[2][1] = Scale /\ distMatrix[1][2] # distMatrix[2][2]
    /\ last.randomNumber = distMatrix[1][1]
    /\ last.result = distMatrix[2][2]

\* C13 witness of the other case: no row exceeds the draw, nothing returned
C13_NoValueReached ==
    /\ last.kind = "generateMsgSize" /\ distMatrix # << >>
    /\ last.result = None

\* ---- the packets the latest scheduler call injected -----------------------
\* positions in delayQueue of packets injected in the slot of the latest call
\* (with fixedDelay >= 1 they are still there when the call returns)
InjectedAt == {i \in 1..Len(delayQueue) : delayQueue[i].inj = last.slot}

Sorted(s, k) == \A i \in 1..(Len(s) - 1) : s[i][k] <= s[i + 1][k]

\* C14: SRPT invariant.  txQueue is always sorted ascending by remaining size
\* and holds no message of remaining size 0; a call of simpleScheduler that
\* finds txQueue non-empty sends exactly one packet, of a message whose
\* remaining size is the smallest in txQueue at that moment (a message that
\* arrived in that slot included): the head.
C14_SRPT ==
    /\ Sorted(txQueue, "size")
    /\ \A i \in 1..Len(txQueue) : txQueue[i].size > 0
    /\ (FreshCall("simple") /\ Len(last.tx) > 0) =>
          /\ Cardinality(InjectedAt) = 1
          /\ \A i \in InjectedAt :
                /\ delayQueue[i].id = last.tx[1].id
                /\ delayQueue[i].size = last.tx[1].size
                /\ \A j \in 1..Len(last.tx) :
                      delayQueue[i].size <= last.tx[j].size

\* C14 witness: a message of size 3 had 2 left to send when a message of size
\* 1 arrived; the call of that slot sent the packet of the new message
C14_Witness ==
    /\ FreshCall("simple") /\ Len(last.tx) = 2
    /\ last.tx[1].size = 1 /\ msgDict[last.tx[1].id].slot = last.slot
    /\ last.tx[2].size = 2 /\ msgDict[last.tx[2].id].size = 3
    /\ \E i \in InjectedAt : delayQueue[i].id = last.tx[1].id

\* C15: delay-queue invariant.  Every packet in delayQueue has a remaining
\* delay >= 0, delayQueue is sorted ascending by remaining delay, and every
\* depletion a packet has stayed through has lowered its delay by exactly 1:
\* its delay is the sampled one minus the number of depletions since it was
\* injected (one per slot, that of its own slot included).
C15_DelayQueueInvariant ==
    /\ \A i \in 1..Len(delayQueue) : delayQueue[i].delay >= 0
    /\ Sorted(delayQueue, "delay")
    /\ last.kind \in {"simple", "ideal"} =>
          \A i \in 1..Len(delayQueue) :
              delayQueue[i].delay =
                  delayQueue[i].d0 - (last.slot - delayQueue[i].inj + 1)

\* C15 witness: two packets in flight, one of them through two depletions and
\* about to be released, the other behind it
C15_Witness ==
    /\ Len(delayQueue) = 2
    /\ delayQueue[1].delay = 0 /\ delayQueue[1].inj = last.slot - 1
    /\ delayQueue[1].d0 = 2
    /\ delayQueue[2].delay = 1 /\ delayQueue[2].inj = last.slot

\* the departure records of the packet [id, size] in a store
RecordsOfPkt(out, id, size) ==
    IF id \in DOMAIN out
    THEN {i \in 1..Len(out[id]) : out[id][i].size = size}
    ELSE {}

\* C16: release timing.  A packet injected at slot T with sampled delay
\* d >= 1 moves to rxQueue in the depletion of slot T + d: a depletion
\* releases only packets with T + d equal to its slot, it leaves behind only
\* packets with T + d after its slot, and a packet has no departure record
\* while it is in delayQueue or rxQueue, so that its departure slot is at
\* least T + d.
C16_ReleaseTiming ==
    last.kind \in {"simple", "ideal"} =>
        /\ \A i \in 1..Len(last.released) :
              last.released[i].d0 >= 1 =>
                 /\ last.slot = last.released[i].inj + last.released[i].d0
                 /\ \A n \in RecordsOfPkt(pktOutTimes[last.kind],
                                          last.released[i].id,
                                          last.released[i].size) :
                       pktOutTimes[last.kind][last.released[i].id][n].slot
                          >= last.released[i].inj + last.released[i].d0
        /\ \A i \in 1..Len(delayQueue) :
              /\ delayQueue[i].inj + delayQueue[i].d0 > last.slot
              /\ RecordsOfPkt(Store, delayQueue[i].id, delayQueue[i].size)
                    = {}
        /\ \A i \in 1..Len(rxQueue) :
              RecordsOfPkt(Store, rxQueue[i].id, rxQueue[i].size) = {}

\* C16 witness: a packet injected two slots ago with delay 2 was released by
\* the latest depletion and retired in the same call
C16_Witness ==
    /\ last.kind \in {"simple", "ideal"}
    /\ \E i \in 1..Len(last.released) :
          /\ last.released[i].d0 = 2
          /\ last.released[i].inj = last.slot - 2
          /\ \E n \in RecordsOfPkt(pktOutTimes[last.kind],
                                    last.released[i].id,
                                    last.released[i].size) :
                pktOutTimes[last.kind][last.released[i].id][n].slot
                   = last.slot

\* the departure records the latest call appended to its store, as
\* <<message id, position>> pairs (a call records with its own slot)
RetiredAt ==
    {p \in UNION {{m} \X (1..Len(pktOutTimes[last.kind][m]))
                  : m \in DOMAIN pktOutTimes[last.kind]} :
        pktOutTimes[last.kind][p[1]][p[2]].slot = last.slot}

\* C17: Ideal retirement order.  Every packet idealScheduler makes carries as
\* priority the remaining size its message had when the packet was scheduled
\* (before the decrement); a call that finds rxQueue non-empty after its
\* depletion retires one packet, and that packet's priority value is the
\* smallest among the packets rxQueue held then: none with a smaller value
\* is left waiting.
C17_IdealRetirementOrder ==
    (sched = "ideal" /\ last.kind = "ideal") =>
        /\ \A i \in 1..Len(delayQueue) :
              delayQueue[i].prio = delayQueue[i].size
        /\ \A i \in 1..Len(rxQueue) : rxQueue[i].prio = rxQueue[i].size
        /\ \A m \in DOMAIN pktOutTimes.ideal :
              \A n \in 1..Len(pktOutTimes.ideal[m]) :
                 pktOutTimes.ideal[m][n].prio = pktOutTimes.ideal[m][n].size
        /\ \A i \in 1..Len(last.tx) :
              \E j \in InjectedAt :
                 /\ delayQueue[j].id = last.tx[i].id
                 /\ delayQueue[j].prio = last.tx[i].size
        /\ last.rx + Len(last.released) > 0 => Cardinality(RetiredAt) = 1
        /\ \A p \in RetiredAt :
              \A j \in 1..Len(rxQueue) :
                 pktOutTimes.ideal[p[1]][p[2]].prio <= rxQueue[j].prio

\* C17 witness: a depletion released a packet of priority 2 and then one of
\* priority 1; the call retired the one of priority 1 and the other waits
C17_Witness ==
    /\ sched = "ideal" /\ last.kind = "ideal"
    /\ Len(last.released) = 2
    /\ last.released[1].prio = 2 /\ last.released[2].prio = 1
    /\ \E p \in RetiredAt : pktOutTimes.ideal[p[1]][p[2]].prio = 1
    /\ Len(rxQueue) = 1 /\ rxQueue[1].prio = 2

\* rxQueue as it is after the depletion of the call that is being made:
\* what it held, then the packets released, in the order of their release
AfterDepletion ==
    rxQueue \o [i \in 1..Len(last'.released) |->
                   StripDelay(last'.released[i])]

\* C18: Simple retirement is FIFO over rxQueue.  All packets of the Simple
\* run carry priority 0, and every call of simpleScheduler retires the packet
\* that entered rxQueue first (earlier depletion, or earlier within the
\* same depletion) and leaves the others in their order of entry, whatever
\* their message id or size.
C18_SimpleFIFO ==
    [][(last' # last /\ last'.kind = "simple") =>
          /\ \A i \in 1..Len(delayQueue') : delayQueue'[i].prio = 0
          /\ \A i \in 1..Len(rxQueue') : rxQueue'[i].prio = 0
          /\ IF AfterDepletion = << >>
             THEN rxQueue' = << >> /\ pktOutTimes' = pktOutTimes
             ELSE /\ rxQueue' = Tail(AfterDepletion)
                  /\ RecordsOf(pktOutTimes'.simple, Head(AfterDepletion).id)
                       = RecordsOf(pktOutTimes.simple,
                                   Head(AfterDepletion).id) + 1
                  /\ LET recs ==
                            pktOutTimes'.simple[Head(AfterDepletion).id]
                     IN recs[Len(recs)] =
                           [slot |-> last'.slot, prio |-> 0,
                            size |-> Head(AfterDepletion).size]]_vars

\* C18 witness: one depletion released the packet of size 2 of a message and
\* then its packet of size 1; the call retired the first and the second waits
C18_Witness ==
    /\ FreshCall("simple") /\ Len(last.released) = 2
    /\ \E p \in RetiredAt : pktOutTimes.simple[p[1]][p[2]].size = 2
    /\ Len(rxQueue) = 1 /\ rxQueue[1].size = 1

\* C19: head-of-line inversion in the Simple run.  A call can retire a packet
\* q while a packet p that was scheduled at an earlier slot is still in
\* delayQueue, and then p departs later than q; whenever that happens, q
\* drew a shorter delay than p and reached rxQueue first (its slot of
\* injection plus its delay is before p's).  The witness is the inversion
\* itself.
C19_InversionOnlyByShorterDelay ==
    last.kind = "simple" =>
        \A i \in 1..Len(last.released) :
            \A j \in 1..Len(delayQueue) :
                delayQueue[j].inj < last.released[i].inj =>
                    /\ last.released[i].d0 < delayQueue[j].d0
                    /\ last.released[i].inj + last.released[i].d0
                          < delayQueue[j].inj + delayQueue[j].d0

\* C19 witness: the packet of a message of size 1, sent first, is still in
\* flight when the packet of remaining size 2 of another message, sent a
\* slot later with a shorter delay, is released and retired
C19_InversionReached ==
    /\ FreshCall("simple")
    /\ \E i \in 1..Len(last.released) :
          \E j \in 1..Len(delayQueue) :
             /\ delayQueue[j].inj < last.released[i].inj
             /\ delayQueue[j].size < last.released[i].size
             /\ delayQueue[j].id # last.released[i].id
             /\ msgDict[delayQueue[j].id].size
                   < msgDict[last.released[i].id].size
             /\ last.released[i].d0 < delayQueue[j].d0
             /\ \E p \in RetiredAt :
                   /\ p[1] = last.released[i].id
                   /\ pktOutTimes.simple[p[1]][p[2]].size
                         = last.released[i].size

\* the message ids found in the three queues of the i-th Scheduler instance
IdsIn(i) ==
    UNION {{heap.lists[o][n].id : n \in 1..Len(heap.lists[o])}
           : o \in {heap.schedulers[i].txQueue, heap.schedulers[i].rxQueue,
                    heap.schedulers[i].delayQueue}}

\* C20: every Scheduler instance owns its three queues exclusively, the
\* instances made without queue arguments included: a message or packet put
\* into the queues of one instance is in no queue of another instance.
C20_QueuesOwnedExclusively ==
    \A i, j \in 1..Len(heap.schedulers) :
        i # j => IdsIn(i) \cap IdsIn(j) = {}

\* the slots at which a store has a departure record
SlotsOf(out) ==
    UNION {{out[m][n].slot : n \in 1..Len(out[m])} : m \in DOMAIN out}

\* a store has at most one record per slot (as many slots as records), the
\* records of a message have strictly increasing slots, and so the last one
\* has the maximum slot
OneRecordPerSlot(out) ==
    /\ Cardinality(SlotsOf(out)) = Departed(out)
    /\ \A m \in DOMAIN out :
          /\ \A n \in 1..(Len(out[m]) - 1) :
                out[m][n].slot < out[m][n + 1].slot
          /\ out[m][Len(out[m])].slot
                = MaxOf({out[m][n].slot : n \in 1..Len(out[m])})

\* C21: within a run the scheduler is called once for each slot 0, 1, 2, ...
\* in increasing order, the first drain call taking the slot right after the
\* last arrival slot: every call's slot is 0 when it is the first call of its
\* run and the previous call's slot plus 1 otherwise.  Hence each store has
\* at most one record per slot, a message's records have strictly increasing
\* slots, and the slot of its last record is the maximum.
C21_OneCallPerSlot ==
    [][/\ (last' # last /\ last'.kind \in {"simple", "ideal"}) =>
             last'.slot = (IF last.kind = last'.kind THEN last.slot + 1
                           ELSE 0)
       /\ OneRecordPerSlot(pktOutTimes'.simple)
       /\ OneRecordPerSlot(pktOutTimes'.ideal)]_vars

\* C21 witness: the first call of the drain phase has just been made, at slot
\* steps, and a message has one record from the arrival phase and one from
\* this call
C21_Witness ==
    /\ FreshCall("simple") /\ pc = "drain" /\ steps > 0
    /\ last.slot = steps
    /\ \E m \in DOMAIN pktOutTimes.simple :
          /\ Len(pktOutTimes.simple[m]) = 2
          /\ pktOutTimes.simple[m][1].slot < steps
          /\ pktOutTimes.simple[m][2].slot = steps

\* number of packets [m, s] in delayQueue, in rxQueue and recorded as departed
\* in the store of the run that executes
CopiesOf(m, s) ==
    Cardinality({i \in 1..Len(delayQueue) :
                    delayQueue[i].id = m /\ delayQueue[i].size = s})
    + Cardinality({i \in 1..Len(rxQueue) :
                      rxQueue[i].id = m /\ rxQueue[i].size = s})
    + Cardinality(RecordsOfPkt(Store, m, s))

\* the records of a finished run carry the sizes 1..size, once each
SizesOnceEach(out) ==
    \A m \in DOMAIN msgDict :
        /\ m \in DOMAIN out /\ Len(out[m]) = msgDict[m].size
        /\ {out[m][n].size : n \in 1..Len(out[m])} = 1..msgDict[m].size

\* C22: no two packets of a run carry the same (message id, remaining size at
\* schedule): of a message with r left to send and original size s, the
\* packets r+1..s exist exactly once each (in delayQueue, in rxQueue or as a
\* departure record) and no other packet of it exists, so depletion neither
\* duplicates nor drops a packet; no two entries of delayQueue are equal as
\* values; and when a run is over the records of each message carry the
\* remaining sizes 1..size once each.
C22_UniquePackets ==
    /\ \A m \in Arrived :
          \A s \in 1..msgDict[m].size :
             CopiesOf(m, s) = (IF s > TxRemaining(m) THEN 1 ELSE 0)
    /\ \A i \in 1..Len(delayQueue) :
          /\ delayQueue[i].id \in Arrived
          /\ delayQueue[i].size \in 1..msgDict[delayQueue[i].id].size
          /\ \A j \in 1..Len(delayQueue) :
                i # j => ~SameValue(delayQueue[i], delayQueue[j])
    /\ \A i \in 1..Len(rxQueue) :
          /\ rxQueue[i].id \in Arrived
          /\ rxQueue[i].size \in 1..msgDict[rxQueue[i].id].size
    /\ DrainFinished("simple") => SizesOnceEach(pktOutTimes.simple)
    /\ DrainFinished("ideal") => SizesOnceEach(pktOutTimes.ideal)

\* C22 witness: both runs are over; a message of size 2 departed as packet 2
\* then packet 1 in the Simple run and as packet 1 then packet 2 in the Ideal
\* run
C22_Witness ==
    /\ pc = "analyze"
    /\ \E m \in DOMAIN msgDict :
          /\ msgDict[m].size = 2
          /\ pktOutTimes.simple[m][1].size = 2
          /\ pktOutTimes.simple[m][2].size = 1
          /\ pktOutTimes.ideal[m][1].size = 1
          /\ pktOutTimes.ideal[m][2].size = 2

====
